---- MODULE Spec2Model ----
(***************************************************************************)
(* The SIR notebook (SIR_models/SIR_model.ipynb): a configuration cell,    *)
(* the right-hand side deriv, the initial-condition vector y0, and one     *)
(* call of scipy's odeint over the time grid t, unpacked into S, I, R.     *)
(*                                                                         *)
(* Python floats are binary floating-point numbers.  They are modelled as  *)
(* pairs <<m, e>> standing for m * 2^e with a Prec-bit significand, and    *)
(* every arithmetic operation returns the correctly rounded result         *)
(* (round-half-to-even), as IEEE-754 arithmetic does.  The exponent is     *)
(* unbounded: overflow and underflow are outside the model.                *)
(***************************************************************************)
EXTENDS Integers, Sequences, FiniteSets, TLC

\* Significand width of the modelled floating-point format (53 in a double).
Prec == 12

\* Values of 2^MaxExp and beyond overflow the format (2^1024 in a double).
MaxExp == 64

----------------------------------------------------------------------------
(* Floating-point arithmetic *)

Abs(x) == IF x < 0 THEN -x ELSE x

Sign(x) == IF x < 0 THEN -1 ELSE 1

RECURSIVE BitLen(_)
BitLen(n) == IF n = 0 THEN 0 ELSE 1 + BitLen(n \div 2)

\* The float nearest to the exact value m * 2^e (ties to even).
Norm(m, e) ==
    IF m = 0 THEN <<0, 0>>
    ELSE LET a == Abs(m)
             k == BitLen(a) - Prec
         IN  IF k <= 0
             THEN <<Sign(m) * a * 2^(-k), e + k>>
             ELSE LET q    == a \div 2^k
                      r    == a % 2^k
                      half == 2^(k - 1)
                      up   == IF r > half \/ (r = half /\ q % 2 = 1)
                              THEN q + 1 ELSE q
                  IN  IF up = 2^Prec
                      THEN <<Sign(m) * (up \div 2), e + k + 1>>
                      ELSE <<Sign(m) * up, e + k>>

\* float(n) for a Python int n.
FromInt(n) == Norm(n, 0)

\* -x
fneg(x) == <<-x[1], x[2]>>

\* x * y
fmul(x, y) == Norm(x[1] * y[1], x[2] + y[2])

\* x / y for y # 0: the quotient to Prec + 2 bits and a sticky bit, rounded.
fdiv(x, y) ==
    IF x[1] = 0 THEN <<0, 0>>
    ELSE LET n  == Abs(x[1]) * 2^(Prec + 1)
             q  == n \div Abs(y[1])
             r  == n % Abs(y[1])
             q2 == 2 * q + (IF r = 0 THEN 0 ELSE 1)
             s  == IF (x[1] < 0) = (y[1] < 0) THEN 1 ELSE -1
         IN  Norm(s * q2, x[2] - y[2] - (Prec + 1) - 1)

\* x + y: the operands aligned on the smaller exponent, summed and rounded;
\* an operand below a quarter of the other's last place does not change it.
fadd(x, y) ==
    IF x[1] = 0 THEN y
    ELSE IF y[1] = 0 THEN x
    ELSE LET hi == IF x[2] >= y[2] THEN x ELSE y
             lo == IF x[2] >= y[2] THEN y ELSE x
             d  == hi[2] - lo[2]
         IN  IF d > Prec + 2 THEN hi
             ELSE Norm(hi[1] * 2^d + lo[1], lo[2])

\* x - y
fsub(x, y) == fadd(x, fneg(y))

\* Comparisons of floats: the rounded difference has the sign of the exact one.
flt(x, y) == fsub(x, y)[1] < 0

fle(x, y) == fsub(x, y)[1] <= 0

Zero == <<0, 0>>

\* x is below the overflow threshold of the format.
Finite(x) == x[1] = 0 \/ x[2] + Prec <= MaxExp

----------------------------------------------------------------------------
(* The notebook *)

VARIABLES
    pc,        \* the next notebook cell to run, or the position inside odeint
    globals,   \* the notebook's namespace: the names defined so far
    yout,      \* odeint's output array: the rows stored so far
    k,         \* odeint's loop index: the number of rows stored
    istate,    \* the solver's status: 0 not started, > 0 fine, < 0 failed
    ncalls,    \* how many times odeint has been invoked
    warnings,  \* the warnings emitted so far
    calls,     \* the latest evaluation of deriv: its arguments and result
    prev       \* what the previous run of the notebook yielded, if it is re-run

vars == <<pc, globals, yout, k, istate, ncalls, warnings, calls, prev>>

\* deriv with the recovery term of dIdt added instead of subtracted.
derivSignSlip(y, t, N, beta, gamma) ==
    LET S == y[1]
        I == y[2]
        R == y[3]
        dSdt == fdiv(fmul(fmul(fneg(beta), S), I), FromInt(N))
        dIdt == fadd(fdiv(fmul(fmul(beta, S), I), FromInt(N)), fmul(gamma, I))
        dRdt == fmul(gamma, I)
    IN  <<dSdt, dIdt, dRdt>>

\* deriv with dRdt computed from R instead of I.
derivRecoveredTypo(y, t, N, beta, gamma) ==
    LET S == y[1]
        I == y[2]
        R == y[3]
        dSdt == fdiv(fmul(fmul(fneg(beta), S), I), FromInt(N))
        dIdt == fsub(fdiv(fmul(fmul(beta, S), I), FromInt(N)), fmul(gamma, I))
        dRdt == fmul(gamma, R)
    IN  <<dSdt, dIdt, dRdt>>

\* deriv with the minus sign of dSdt left out.
derivMissingMinus(y, t, N, beta, gamma) ==
    LET S == y[1]
        I == y[2]
        R == y[3]
        dSdt == fdiv(fmul(fmul(beta, S), I), FromInt(N))
        dIdt == fsub(fdiv(fmul(fmul(beta, S), I), FromInt(N)), fmul(gamma, I))
        dRdt == fmul(gamma, I)
    IN  <<dSdt, dIdt, dRdt>>

\* deriv with dRdt negated.
derivRecoveredLoss(y, t, N, beta, gamma) ==
    LET S == y[1]
        I == y[2]
        R == y[3]
        dSdt == fdiv(fmul(fmul(fneg(beta), S), I), FromInt(N))
        dIdt == fsub(fdiv(fmul(fmul(beta, S), I), FromInt(N)), fmul(gamma, I))
        dRdt == fneg(fmul(gamma, I))
    IN  <<dSdt, dIdt, dRdt>>

\* deriv with the recovery term of dIdt left out.
derivNoRecovery(y, t, N, beta, gamma) ==
    LET S == y[1]
        I == y[2]
        R == y[3]
        dSdt == fdiv(fmul(fmul(fneg(beta), S), I), FromInt(N))
        dIdt == fdiv(fmul(fmul(beta, S), I), FromInt(N))
        dRdt == fmul(gamma, I)
    IN  <<dSdt, dIdt, dRdt>>

\* deriv with dIdt and dRdt returned in the wrong order.
derivSwapped(y, t, N, beta, gamma) ==
    LET S == y[1]
        I == y[2]
        R == y[3]
        dSdt == fdiv(fmul(fmul(fneg(beta), S), I), FromInt(N))
        dIdt == fsub(fdiv(fmul(fmul(beta, S), I), FromInt(N)), fmul(gamma, I))
        dRdt == fmul(gamma, I)
    IN  <<dSdt, dRdt, dIdt>>

\* The derivative function of the notebook.  y holds floats, N is an int and
\* is converted to float by the division, beta and gamma are floats.
deriv(y, t, N, beta, gamma) ==
    LET S == y[1]
        I == y[2]
        R == y[3]
        dSdt == fdiv(fmul(fmul(fneg(beta), S), I), FromInt(N))
        dIdt == fsub(fdiv(fmul(fmul(beta, S), I), FromInt(N)), fmul(gamma, I))
        dRdt == fmul(gamma, I)
    IN  <<dSdt, dIdt, dRdt>>

\* A grid of num points that stops one step short of stop, as
\* np.linspace(start, stop, num, endpoint=False) makes it.
linspaceNoEndpoint(start, stop, num) ==
    LET step == fdiv(FromInt(stop - start), FromInt(num))
    IN  [i \in 1..num |->
            fadd(fmul(FromInt(i - 1), step), FromInt(start))]

\* np.linspace(start, stop, num) for ints start, stop and num > 1: the points
\* i * step with step = (stop - start) / (num - 1), shifted by start, and the
\* last point set to stop.
linspace(start, stop, num) ==
    LET step == fdiv(FromInt(stop - start), FromInt(num - 1))
    IN  [i \in 1..num |->
            IF i = num THEN FromInt(stop)
            ELSE fadd(fmul(FromInt(i - 1), step), FromInt(start))]

\* The number of grid points and the last day of the notebook's grid.
GridPoints == 160

GridEnd == 160

\* A longer grid, for what a run does when it is given more time: one point
\* per day over LongEnd days.
LongEnd == 320

LongPoints == 320

\* A decimal literal p/q (0.2 is 2/10): the nearest float.
Literal(p, q) == fdiv(FromInt(p), FromInt(q))

\* The configurations the configuration cell is run with.  The notebook's own
\* is HardCoded; the others vary its constants, inside and outside the ranges
\* the documentation calls valid.  beta and gamma are decimal literals <<p, q>>.
\* The grid is <<stop, num>>, for t = np.linspace(0, stop, num).
HardCoded ==
    [N |-> 1000, I0 |-> 1, R0 |-> 0, beta |-> <<2, 10>>, gamma |-> <<1, 10>>,
     grid |-> <<GridEnd, GridPoints>>]

ValidConfigs ==
    [N : {1000}, I0 : {1, 10}, R0 : {0, 5},
     beta : {<<2, 10>>, <<5, 10>>, <<5, 100>>}, gamma : {<<1, 10>>, <<25, 100>>},
     grid : {<<GridEnd, GridPoints>>, <<LongEnd, LongPoints>>}]
    \cup
    [N : {100}, I0 : {0, 1}, R0 : {0, 5},
     beta : {<<2, 10>>}, gamma : {<<1, 10>>},
     grid : {<<GridEnd, GridPoints>>, <<LongEnd, LongPoints>>}]

InvalidConfigs ==
    {[HardCoded EXCEPT !.N = -1000],
     [HardCoded EXCEPT !.I0 = -1],
     [HardCoded EXCEPT !.I0 = 2000],
     [HardCoded EXCEPT !.R0 = -5],
     [HardCoded EXCEPT !.beta = <<-2, 10>>],
     [HardCoded EXCEPT !.beta = <<0, 10>>],
     [HardCoded EXCEPT !.gamma = <<-1, 10>>],
     [HardCoded EXCEPT !.gamma = <<0, 10>>]}

Configs == ValidConfigs \cup InvalidConfigs

Defined(name) == name \in DOMAIN globals

\* The configuration the documentation calls valid.
Valid(g) ==
    /\ g.N > 0
    /\ g.I0 >= 0 /\ g.R0 >= 0 /\ g.I0 + g.R0 <= g.N
    /\ g.beta[1] > 0
    /\ g.gamma[1] > 0

Init ==
    /\ pc = "config"
    /\ globals = <<>>
    /\ yout = <<>>
    /\ k = 0
    /\ istate = 0
    /\ ncalls = 0
    /\ warnings = <<>>
    /\ calls = <<>>
    /\ prev = <<>>

\* S0 = N - I0 - R0, on Python ints.
Susceptible0(N, I0, R0) == N - I0 - R0

\* y0 with I0 and R0 in the wrong order.
InitialConditionsSwapped(S0, I0, R0) == <<S0, R0, I0>>

\* y0 = S0, I0, R0
InitialConditions(S0, I0, R0) == <<S0, I0, R0>>

\* The constants of the configuration cell are those the namespace holds:
\* the cell is source text, and running it again binds the same values.
SameConstants(c) ==
    /\ globals.N = c.N /\ globals.I0 = c.I0 /\ globals.R0 = c.R0
    /\ globals.beta = Literal(c.beta[1], c.beta[2])
    /\ globals.gamma = fdiv(FromInt(c.gamma[1]), FromInt(c.gamma[2]))
    /\ Len(globals.t) = c.grid[2]
    /\ globals.t[Len(globals.t)] = FromInt(c.grid[1])

\* The configuration cell: N, I0, R0, S0, beta, gamma and the grid t.  A
\* binding replaces the one the namespace holds; the other names stay bound.
ConfigCell(c) ==
    /\ pc = "config"
    /\ Defined("N") => SameConstants(c)
    /\ globals' = [N |-> c.N, I0 |-> c.I0, R0 |-> c.R0,
                   S0 |-> Susceptible0(c.N, c.I0, c.R0),
                   beta |-> Literal(c.beta[1], c.beta[2]),
                   gamma |-> fdiv(FromInt(c.gamma[1]), FromInt(c.gamma[2])),
                   t |-> linspace(0, c.grid[1], c.grid[2])] @@ globals
    /\ pc' = "y0"
    /\ UNCHANGED <<yout, k, istate, ncalls, warnings, calls, prev>>

\* The initial-conditions cell: y0 = S0, I0, R0.
Y0Cell ==
    /\ pc = "y0"
    /\ globals' =
         [y0 |-> InitialConditions(globals.S0, globals.I0, globals.R0)] @@ globals
    /\ pc' = "odeint"
    /\ UNCHANGED <<yout, k, istate, ncalls, warnings, calls, prev>>

\* odeint picking up the state an earlier call left the solver in.
OdeintCallWarmStart ==
    /\ pc = "odeint"
    /\ yout' = IF k > 0 THEN << yout[k] >>
               ELSE << <<FromInt(globals.y0[1]), FromInt(globals.y0[2]),
                         FromInt(globals.y0[3])>> >>
    /\ k' = 1
    /\ istate' = 1
    /\ ncalls' = ncalls + 1
    /\ pc' = "lsoda"
    /\ UNCHANGED <<globals, warnings, calls, prev>>

\* odeint is entered: y0 is converted to an array of floats, which is the
\* first row of the output.
OdeintCall ==
    /\ pc = "odeint"
    /\ yout' = << <<FromInt(globals.y0[1]), FromInt(globals.y0[2]),
                    FromInt(globals.y0[3])>> >>
    /\ k' = 1
    /\ istate' = 1
    /\ ncalls' = ncalls + 1
    /\ pc' = "lsoda"
    /\ UNCHANGED <<globals, warnings, calls, prev>>

\* The solver advanced from t[k] to t[k+1]: one explicit step over the grid
\* interval, with the right-hand side evaluated at the row it starts from.
lsoda(y, tk, tout, N, beta, gamma) ==
    LET h == fsub(tout, tk)
        d == deriv(y, tk, N, beta, gamma)
    IN  [i \in 1..3 |-> fadd(y[i], fmul(h, d[i]))]

\* A turn of the loop of an odeint called with args=(N, gamma, beta): deriv is
\* given gamma for beta and beta for gamma.
OdeintStepArgsSwapped ==
    /\ pc = "lsoda"
    /\ istate > 0
    /\ k < Len(globals.t)
    /\ LET y   == yout[k]
           new == lsoda(y, globals.t[k], globals.t[k + 1],
                        globals.N, globals.gamma, globals.beta)
       IN  /\ \A i \in 1..3 : Finite(new[i])
           /\ yout' = Append(yout, new)
           /\ calls' = << [y |-> y, t |-> globals.t[k], N |-> globals.N,
                           beta |-> globals.gamma, gamma |-> globals.beta,
                           ret |-> deriv(y, globals.t[k], globals.N,
                                         globals.gamma, globals.beta)] >>
    /\ k' = k + 1
    /\ istate' = 2
    /\ UNCHANGED <<pc, globals, ncalls, warnings, prev>>

\* One turn of odeint's loop over the grid: the solver reaches t[k+1] and the
\* row is stored.  A solution that overflows the format is not reached: the
\* solver can only fail there.
OdeintStep ==
    /\ pc = "lsoda"
    /\ istate > 0
    /\ k < Len(globals.t)
    /\ LET y   == yout[k]
           new == lsoda(y, globals.t[k], globals.t[k + 1],
                        globals.N, globals.beta, globals.gamma)
       IN  /\ \A i \in 1..3 : Finite(new[i])
           /\ yout' = Append(yout, new)
           /\ calls' = << [y |-> y, t |-> globals.t[k], N |-> globals.N,
                           beta |-> globals.beta, gamma |-> globals.gamma,
                           ret |-> deriv(y, globals.t[k], globals.N,
                                         globals.beta, globals.gamma)] >>
    /\ k' = k + 1
    /\ istate' = 2
    /\ UNCHANGED <<pc, globals, ncalls, warnings, prev>>

\* What the rows odeint never wrote may hold.
Unwritten == {<<Zero, Zero, Zero>>, <<FromInt(1), FromInt(1), FromInt(1)>>}

\* One turn of odeint's loop in which the solver fails (too much work, step
\* size underflow, no convergence): the state it stopped at is stored as row
\* k+1 and the loop ends, the remaining rows of the array left unwritten.
OdeintFail(junk) ==
    /\ pc = "lsoda"
    /\ istate > 0
    /\ k < Len(globals.t)
    /\ yout' = [i \in 1..Len(globals.t) |->
                    IF i <= k THEN yout[i]
                    ELSE IF i = k + 1 THEN yout[k] ELSE junk]
    /\ k' = k + 1
    /\ istate' = -1
    /\ UNCHANGED <<pc, globals, ncalls, warnings, calls, prev>>

\* The return of odeint unpacked without the transpose: S, I, R = ret.
OdeintReturnNoTranspose ==
    /\ pc = "lsoda"
    /\ istate < 0 \/ k = Len(globals.t)
    /\ warnings' = IF istate < 0 THEN Append(warnings, "ODEintWarning")
                   ELSE warnings
    /\ globals' = [ret |-> yout, S |-> yout[1], I |-> yout[2],
                   R |-> yout[3]] @@ globals
    /\ pc' = "done"
    /\ UNCHANGED <<yout, k, istate, ncalls, calls, prev>>

\* odeint returns its array, with a warning when the solver failed, and the
\* cell goes on: ret is bound and unpacked into S, I, R.
OdeintReturn ==
    /\ pc = "lsoda"
    /\ istate < 0 \/ k = Len(globals.t)
    /\ warnings' = IF istate < 0 THEN Append(warnings, "ODEintWarning")
                   ELSE warnings
    /\ globals' = [ret |-> yout,
                   S |-> [i \in 1..Len(yout) |-> yout[i][1]],
                   I |-> [i \in 1..Len(yout) |-> yout[i][2]],
                   R |-> [i \in 1..Len(yout) |-> yout[i][3]]] @@ globals
    /\ pc' = "done"
    /\ UNCHANGED <<yout, k, istate, ncalls, calls, prev>>

Next ==
    \/ \E c \in Configs : ConfigCell(c)
    \/ Y0Cell
    \/ OdeintCall
    \/ OdeintStep
    \/ \E junk \in Unwritten : OdeintFail(junk)
    \/ OdeintReturn

Spec == Init /\ [][Next]_vars

----------------------------------------------------------------------------
(* The notebook run a second time *)

\* The configurations the notebook is re-run with.
RerunConfigs ==
    [N : {1000}, I0 : {1, 10}, R0 : {0, 5},
     beta : {<<2, 10>>, <<5, 10>>}, gamma : {<<1, 10>>},
     grid : {<<GridEnd, GridPoints>>}]
    \cup {[N |-> 100, I0 |-> 0, R0 |-> 5, beta |-> <<2, 10>>,
            gamma |-> <<1, 10>>, grid |-> <<GridEnd, GridPoints>>]}

\* After a run that returned without a failure, the cells are run again from
\* the top in the same kernel: the namespace and whatever odeint left behind
\* are still there, and what the run yielded is kept for comparison.
Rerun ==
    /\ pc = "done"
    /\ istate > 0
    /\ prev = <<>>
    /\ prev' = << [S |-> globals.S, I |-> globals.I, R |-> globals.R] >>
    /\ pc' = "config"
    /\ UNCHANGED <<globals, yout, k, istate, ncalls, warnings, calls>>

NextRerun ==
    \/ \E c \in RerunConfigs : ConfigCell(c)
    \/ Y0Cell
    \/ OdeintCall
    \/ OdeintStep
    \/ \E junk \in Unwritten : OdeintFail(junk)
    \/ OdeintReturn
    \/ Rerun

SpecRerun == Init /\ [][NextRerun]_vars

----------------------------------------------------------------------------
(* deriv on its own: the function applied to arguments of the caller's choice *)

\* The arguments deriv is probed with: decimal literals <<p, q>> for the
\* floats, ints for N (N = 0, where the division has no finite result, is
\* left out).
ProbeS == {<<0, 1>>, <<1, 1>>, <<500, 1>>, <<999, 1>>, <<3, 10>>}

ProbeI == {<<0, 1>>, <<1, 1>>, <<10, 1>>, <<1575, 10>>}

ProbeR == {<<0, 1>>, <<47, 1>>}

ProbeT == {<<0, 1>>, <<15, 10>>}

ProbeN == {1000, 100, 3, -1000}

ProbeBeta == {<<2, 10>>, <<5, 10>>, <<5, 100>>, <<-2, 10>>, <<0, 1>>}

ProbeGamma == {<<1, 10>>, <<25, 100>>, <<0, 1>>}

InitDeriv ==
    /\ pc = "probe"
    /\ globals = <<>>
    /\ yout = <<>>
    /\ k = 0
    /\ istate = 0
    /\ ncalls = 0
    /\ warnings = <<>>
    /\ calls = <<>>
    /\ prev = <<>>

\* deriv(y, t, N, beta, gamma) is evaluated and its result kept.
Probe(y, t, N, beta, gamma) ==
    /\ pc = "probe"
    /\ calls' = << [y |-> y, t |-> t, N |-> N, beta |-> beta, gamma |-> gamma,
                    ret |-> deriv(y, t, N, beta, gamma)] >>
    /\ pc' = "probed"
    /\ UNCHANGED <<globals, yout, k, istate, ncalls, warnings, prev>>

NextDeriv ==
    \E s \in ProbeS, i \in ProbeI, r \in ProbeR, t \in ProbeT, N \in ProbeN,
       b \in ProbeBeta, g \in ProbeGamma :
        Probe(<<Literal(s[1], s[2]), Literal(i[1], i[2]), Literal(r[1], r[2])>>,
              Literal(t[1], t[2]), N, Literal(b[1], b[2]), Literal(g[1], g[2]))

SpecDeriv == InitDeriv /\ [][NextDeriv]_vars

----------------------------------------------------------------------------
(* Properties of deriv *)

\* The new infections per unit time, beta*S*I/N, and the recoveries per unit
\* time, gamma*I, of an evaluation c of deriv, computed left to right.
Infections(c) == fdiv(fmul(fmul(c.beta, c.y[1]), c.y[2]), FromInt(c.N))

Recoveries(c) == fmul(c.gamma, c.y[2])

\* C2 as stated: for every evaluation of deriv with N > 0 the three returned
\* components sum to zero, dSdt + dIdt + dRdt = 0 (the sum taken left to
\* right, as Python evaluates it).
C2_SumIsZero ==
    \A i \in 1..Len(calls) :
        calls[i].N > 0 =>
            fadd(fadd(calls[i].ret[1], calls[i].ret[2]), calls[i].ret[3]) = Zero

\* C2 as amended: for every evaluation of deriv with N > 0 the components sum
\* to zero up to the rounding of one subtraction: dIdt is the correctly
\* rounded value of (-dSdt) - dRdt, and the sum is exactly zero when dIdt is
\* zero or when -dSdt and dRdt are within a factor two of each other.
C2_SumIsZeroUpToRounding ==
    \A i \in 1..Len(calls) :
        LET r == calls[i].ret
            a == fneg(r[1])
            g == r[3]
        IN  calls[i].N > 0 =>
              /\ r[2] = fsub(a, g)
              /\ (r[2] = Zero
                    \/ (a[1] > 0 /\ g[1] > 0
                          /\ fle(a, fmul(FromInt(2), g))
                          /\ fle(g, fmul(FromInt(2), a))))
                  => fadd(fadd(r[1], r[2]), r[3]) = Zero

\* C2 witness: deriv was evaluated with N > 0 at a state with infections and
\* recoveries, and the sum of its components is not zero.
C2_Witness ==
    /\ Len(calls) = 1
    /\ calls[1].N > 0
    /\ calls[1].ret[1][1] < 0
    /\ calls[1].ret[3][1] > 0
    /\ fadd(fadd(calls[1].ret[1], calls[1].ret[2]), calls[1].ret[3]) # Zero

\* C3: every evaluation of deriv returns the triple
\* (-beta*S*I/N, beta*S*I/N - gamma*I, gamma*I), in the order dS/dt, dI/dt,
\* dR/dt.
C3_DerivIsKermackMcKendrick ==
    \A i \in 1..Len(calls) :
        calls[i].ret = <<fneg(Infections(calls[i])),
                         fsub(Infections(calls[i]), Recoveries(calls[i])),
                         Recoveries(calls[i])>>

\* C3 witness: deriv was evaluated at a state where the three components
\* differ from each other and from zero.
C3_Witness ==
    /\ Len(calls) = 1
    /\ calls[1].ret[1] # Zero /\ calls[1].ret[2] # Zero /\ calls[1].ret[3] # Zero
    /\ calls[1].ret[1] # calls[1].ret[2]
    /\ calls[1].ret[2] # calls[1].ret[3]
    /\ calls[1].ret[1] # calls[1].ret[3]

----------------------------------------------------------------------------
(* Exact values of floats, for statements about sums and tolerances *)

FloorDiv(a, b) == IF a >= 0 THEN a \div b ELSE -((-a + b - 1) \div b)

\* A value too large to matter, used where a float exceeds 2^28 units.
Huge == 2^28

\* The largest multiple of 2^eu that is at most x, as a count of units.
FloorUnits(x, eu) ==
    LET d == x[2] - eu
    IN  IF d >= 0
        THEN IF d > 28 - Prec THEN Sign(x[1]) * Huge ELSE x[1] * 2^d
        ELSE IF -d > Prec THEN (IF x[1] < 0 THEN -1 ELSE 0)
             ELSE FloorDiv(x[1], 2^(-d))

\* x is not a multiple of 2^eu.
Inexact(x, eu) ==
    LET d == x[2] - eu
    IN  x[1] # 0 /\ d < 0 /\ (-d > Prec \/ Abs(x[1]) % 2^(-d) # 0)

\* The exponent of the unit in the last place of float(n), for an int n > 0.
UlpExp(n) == BitLen(n) - Prec

\* The tolerance on S + I + R, in units in the last place of N.
TolUlps == 16

\* The exact sum S + I + R of a row differs from N by at most TolUlps units
\* in the last place of N.  The sum is taken in sixteenths of that unit, each
\* component rounded down, which loses less than one sixteenth a component.
WithinTolerance(row, N) ==
    LET eu    == UlpExp(N) - 4
        lo    == FloorUnits(row[1], eu) + FloorUnits(row[2], eu)
                   + FloorUnits(row[3], eu) - N * 2^(-eu)
        slack == Cardinality({i \in 1..3 : Inexact(row[i], eu)})
    IN  lo >= -(16 * TolUlps) /\ lo + slack <= 16 * TolUlps

\* The run's sampled points, once odeint has returned them.
Row(i) == <<globals.S[i], globals.I[i], globals.R[i]>>

\* odeint is running, or has returned, without a failure of the solver.
Integrating == pc = "lsoda" /\ istate > 0

Returned == pc = "done" /\ istate > 0

ValidRun == Defined("N") /\ Valid(globals)

----------------------------------------------------------------------------
(* Properties of the run *)

\* C1: population is conserved along the whole run: for valid N, I0, R0, beta,
\* gamma, every sampled point satisfies S + I + R = N within the tolerance,
\* both as the solver stores it and in the S, I, R the run yields.
C1_PopulationConserved ==
    ValidRun =>
        /\ Integrating => WithinTolerance(yout[k], globals.N)
        /\ Returned =>
             \A i \in 1..Len(globals.S) : WithinTolerance(Row(i), globals.N)

\* C1 witness: a valid run with infected individuals has returned, and S has
\* moved away from S0.
C1_Witness ==
    /\ ValidRun /\ Returned
    /\ globals.I0 > 0
    /\ globals.S[Len(globals.S)] # globals.S[1]

\* The float x is exactly the int n.
IsInt(x, n) == FloorUnits(x, 0) = n /\ ~Inexact(x, 0)

Last(seq) == seq[Len(seq)]

\* C4: the first sampled point equals the initial condition exactly: S0 is
\* N - I0 - R0, y0 is (S0, I0, R0) in that order, and the first row the solver
\* stores and the first entries of the S, I, R the run yields are
\* (N - I0 - R0, I0, R0).
C4_FirstPointIsInitialCondition ==
    /\ Defined("S0") => globals.S0 = globals.N - globals.I0 - globals.R0
    /\ Defined("y0") => globals.y0 = <<globals.S0, globals.I0, globals.R0>>
    /\ Len(yout) >= 1 =>
         /\ IsInt(yout[1][1], globals.N - globals.I0 - globals.R0)
         /\ IsInt(yout[1][2], globals.I0)
         /\ IsInt(yout[1][3], globals.R0)
    /\ pc = "done" =>
         /\ IsInt(globals.S[1], globals.N - globals.I0 - globals.R0)
         /\ IsInt(globals.I[1], globals.I0)
         /\ IsInt(globals.R[1], globals.R0)

\* C4 witness: a run with recovered individuals at the start has returned
\* S, I, R, and these have moved away from the initial condition.
C4_Witness ==
    /\ Returned
    /\ globals.R0 > 0 /\ globals.I0 > 0 /\ globals.R0 # globals.I0
    /\ Last(globals.R) # globals.R[1]

\* C5: S is non-increasing: in a run with valid inputs every sampled S is at
\* most the one before it.
C5_SusceptibleNonIncreasing ==
    ValidRun =>
        /\ Integrating /\ k >= 2 => fle(yout[k][1], yout[k - 1][1])
        /\ Returned =>
             \A i \in 1..(Len(globals.S) - 1) : fle(globals.S[i + 1], globals.S[i])

\* C5 witness: a valid run has returned and S has gone down.
C5_Witness ==
    /\ ValidRun /\ Returned
    /\ flt(Last(globals.S), globals.S[1])

\* C6: R is non-decreasing: in a run with valid inputs every sampled R is at
\* least the one before it.
C6_RecoveredNonDecreasing ==
    ValidRun =>
        /\ Integrating /\ k >= 2 => fle(yout[k - 1][3], yout[k][3])
        /\ Returned =>
             \A i \in 1..(Len(globals.R) - 1) : fle(globals.R[i], globals.R[i + 1])

\* C6 witness: a valid run has returned and R has gone up.
C6_Witness ==
    /\ ValidRun /\ Returned
    /\ flt(globals.R[1], Last(globals.R))

\* The level below which the epidemic counts as over: a hundredth of an
\* individual.
DieOutLevel == Literal(1, 100)

\* The run is over the long grid.
LongRun == Defined("t") /\ fle(FromInt(LongEnd), Last(globals.t))

\* C7: the epidemic dies out: in a valid run (gamma > 0) over the long grid,
\* I at the final grid point is below DieOutLevel.
C7_EpidemicDiesOut ==
    ValidRun /\ LongRun /\ Returned => fle(Last(globals.I), DieOutLevel)

\* C7 witness: a valid run over the long grid has returned, with I above a
\* hundred at some point and below DieOutLevel at the end.
C7_Witness ==
    /\ ValidRun /\ LongRun /\ Returned
    /\ fle(Last(globals.I), DieOutLevel)
    /\ \E i \in 1..Len(globals.I) : flt(FromInt(100), globals.I[i])

\* The run is the notebook's own: the hard-coded constants and grid.
IsHardCoded ==
    /\ Defined("t")
    /\ globals.N = HardCoded.N /\ globals.I0 = HardCoded.I0
    /\ globals.R0 = HardCoded.R0
    /\ globals.beta = Literal(HardCoded.beta[1], HardCoded.beta[2])
    /\ globals.gamma = Literal(HardCoded.gamma[1], HardCoded.gamma[2])
    /\ Len(globals.t) = GridPoints
    /\ Last(globals.t) = FromInt(GridEnd)

\* I goes up to row p and down from it, ending below half its peak.
PeaksAt(p) ==
    /\ \A i \in 1..(p - 1) : fle(globals.I[i], globals.I[i + 1])
    /\ \A i \in p..(Len(globals.I) - 1) : fle(globals.I[i + 1], globals.I[i])
    /\ flt(globals.I[1], globals.I[p])
    /\ flt(fmul(FromInt(2), Last(globals.I)), globals.I[p])

\* C8: the hard-coded scenario starts at S = 999, I = 1, R = 0; I rises to a
\* single peak and falls back; the final S is below N; and S + I + R stays
\* within the tolerance of 1000 at every sampled point.
C8_HardCodedScenario ==
    IsHardCoded /\ Returned =>
        /\ IsInt(globals.S[1], 999) /\ IsInt(globals.I[1], 1)
        /\ IsInt(globals.R[1], 0)
        /\ \E p \in 2..(Len(globals.I) - 1) : PeaksAt(p)
        /\ flt(Last(globals.S), FromInt(globals.N))
        /\ \A i \in 1..Len(globals.S) : WithinTolerance(Row(i), 1000)

\* C8 witness: the hard-coded run has returned its 160 points.
C8_Witness ==
    /\ IsHardCoded /\ Returned
    /\ Len(globals.S) = 160
    /\ \E p \in 2..(Len(globals.I) - 1) : PeaksAt(p)

\* C9 as stated: a configuration outside the documented ranges is rejected
\* before integration: odeint is never entered and no row is stored for it.
C9_InvalidInputsRejected ==
    Defined("N") /\ ~Valid(globals) => ncalls = 0 /\ Len(yout) = 0

\* C10 as stated: the solver is invoked at most once, and when it fails the
\* run ends in an error instead of yielding ret, S, I and R.
C10_FailureEndsInError ==
    /\ ncalls <= 1
    /\ istate < 0 =>
         ~Defined("ret") /\ ~Defined("S") /\ ~Defined("I") /\ ~Defined("R")

C12_OneRowPerGridPoint ==
    /\ pc = "lsoda" /\ istate > 0 =>
        /\ Len(yout) = k /\ k <= Len(globals.t)
        /\ Len(yout[k]) = 3
    /\ pc = "done" =>
        /\ Len(globals.ret) = Len(globals.t)
        /\ Len(globals.S) = Len(globals.t)
        /\ Len(globals.I) = Len(globals.t)
        /\ Len(globals.R) = Len(globals.t)
        /\ \A i \in 1..Len(globals.t) :
            globals.ret[i] = <<globals.S[i], globals.I[i], globals.R[i]>>
        /\ istate > 0 => globals.ret = yout /\ k = Len(globals.t)

\* C12 witness: a run over the notebook's grid has returned, with S, I and R
\* differing from each other at the last grid point.
C12_Witness ==
    /\ Returned
    /\ Len(globals.t) = GridPoints
    /\ Last(globals.S) # Last(globals.I)
    /\ Last(globals.I) # Last(globals.R)

ZeroTriple == <<Zero, Zero, Zero>>

\* C13: once I is 0 the system is stationary: every evaluation of deriv at a
\* state (S, 0, R) returns (0, 0, 0), and in a run that does not fail the row
\* the solver stores after a row with I = 0 equals that row, so that in the
\* S, I, R the run yields every point after one with I = 0 repeats it.
C13_StationaryOnceIIsZero ==
    /\ \A i \in 1..Len(calls) :
        calls[i].y[2] = Zero => calls[i].ret = ZeroTriple
    /\ pc = "lsoda" /\ istate > 0 /\ k > 1 =>
        (yout[k - 1][2] = Zero => yout[k] = yout[k - 1])
    /\ Returned =>
        \A i \in 1..(Len(globals.I) - 1) :
            globals.I[i] = Zero => Row(i + 1) = Row(i)

\* C13 witness: a run that starts with nobody infected, with susceptible and
\* recovered individuals present, has returned after evaluating deriv.
C13_Witness ==
    /\ Returned
    /\ globals.I0 = 0 /\ globals.R0 > 0 /\ globals.S0 > 0
    /\ calls # <<>> /\ calls[1].y[2] = Zero /\ calls[1].y[3] # Zero
    /\ Last(globals.I) = Zero

\* C14: all three compartments stay non-negative: in a valid run that does not
\* fail, every point the solver stores and every point of the S, I, R the run
\* yields has S >= 0, I >= 0 and R >= 0, and each is at most N.
C14_CompartmentsNonNegative ==
    /\ ValidRun /\ Integrating =>
        \A j \in 1..3 :
            fle(Zero, yout[k][j]) /\ fle(yout[k][j], FromInt(globals.N))
    /\ ValidRun /\ Returned =>
        \A i \in 1..Len(globals.t) : \A j \in 1..3 :
            fle(Zero, Row(i)[j]) /\ fle(Row(i)[j], FromInt(globals.N))

\* C14 witness: a valid run has returned in which S fell below a tenth of N
\* and R rose above nine tenths of N.
C14_Witness ==
    /\ ValidRun /\ Returned
    /\ flt(fmul(FromInt(10), Last(globals.S)), FromInt(globals.N))
    /\ flt(fmul(FromInt(9), FromInt(globals.N)),
           fmul(FromInt(10), Last(globals.R)))

\* The parameters and the initial condition as the namespace holds them.
Parameters(g) == <<g.N, g.beta, g.gamma, g.y0>>

\* C15: N, beta and gamma are constant over the whole run: from the call of
\* odeint to its return no step changes N, beta, gamma or y0, and every
\* evaluation of deriv the solver makes is given the N, beta and gamma of the
\* configuration.
C15_StepKeepsParameters ==
    pc \in {"odeint", "lsoda"} =>
        /\ Parameters(globals') = Parameters(globals)
        /\ \A i \in 1..Len(calls') :
            /\ calls'[i].N = globals.N
            /\ calls'[i].beta = globals.beta
            /\ calls'[i].gamma = globals.gamma

C15_ParametersConstant == [][C15_StepKeepsParameters]_vars

\* C15 witness: the solver has evaluated deriv at a state that has moved away
\* from y0, and the run has returned.
C15_Witness ==
    /\ Returned
    /\ calls # <<>>
    /\ calls[1].y # <<FromInt(globals.y0[1]), FromInt(globals.y0[2]),
                      FromInt(globals.y0[3])>>

\* C16: the time grid is an ordered, non-decreasing sequence of sample times:
\* every grid starts at 0, the grid of 160 points ends at 160, and both when
\* the configuration cell has made it and when the run is over, each point
\* is at least as large as the one before it.
C16_TimeGridOrdered ==
    /\ Defined("t") =>
        /\ globals.t[1] = Zero
        /\ Len(globals.t) = 160 => globals.t[160] = FromInt(160)
    /\ pc \in {"y0", "done"} =>
        \A i \in 1..(Len(globals.t) - 1) :
            fle(globals.t[i], globals.t[i + 1])

\* C16 witness: the configuration cell has run with the grid of 160 points.
C16_Witness ==
    /\ pc = "y0"
    /\ Len(globals.t) = 160
    /\ flt(globals.t[159], globals.t[160])

\* C17: the right-hand side is autonomous and ignores R: for the S, I, N, beta
\* and gamma of an evaluation, deriv returns the same triple for every time
\* argument and every R.
C17_DerivIgnoresTimeAndR ==
    \A i \in 1..Len(calls) :
        \A t \in ProbeT, r \in ProbeR :
            deriv(<<calls[i].y[1], calls[i].y[2], Literal(r[1], r[2])>>,
                  Literal(t[1], t[2]), calls[i].N, calls[i].beta,
                  calls[i].gamma) = calls[i].ret

\* C17 witness: deriv was evaluated at a time other than 0 with R other than
\* 0, and returned a triple with no zero in it.
C17_Witness ==
    /\ calls # <<>>
    /\ calls[1].t # Zero /\ calls[1].y[3] # Zero
    /\ calls[1].ret[1] # Zero /\ calls[1].ret[2] # Zero
    /\ calls[1].ret[3] # Zero

----------------------------------------------------------------------------
(* The epidemic threshold N * gamma / beta *)

\* The sign of a * 2^d - b, for naturals a and b below 2^30 and d >= 0.
SignScaledUp(a, b, d) ==
    IF d >= 30 THEN (IF a > 0 THEN 1 ELSE IF b > 0 THEN -1 ELSE 0)
    ELSE LET q == b \div 2^d
             r == b % 2^d
         IN  IF a > q THEN 1
             ELSE IF a < q THEN -1
             ELSE IF r = 0 THEN 0 ELSE -1

\* The sign of a * 2^d - b, for naturals a and b below 2^30 and any d.
SignScaled(a, b, d) ==
    IF d >= 0 THEN SignScaledUp(a, b, d) ELSE -SignScaledUp(b, a, -d)

\* beta * S and N * gamma of an evaluation c of deriv, each as an exact
\* integer count of its own unit: beta * S = BetaS(c) * 2^UnitGap(c) units of
\* N * gamma.
BetaS(c) == c.beta[1] * c.y[1][1]

NGamma(c) == c.N * c.gamma[1]

UnitGap(c) == c.beta[2] + c.y[1][2] - c.gamma[2]

\* Where S stands against the threshold N * gamma / beta, in exact arithmetic
\* on the values deriv was given: 1 above, 0 on it, -1 below.  For beta > 0
\* this is the sign of beta * S - N * gamma.
ThresholdSide(c) ==
    IF c.y[1][1] < 0 THEN -1
    ELSE SignScaled(BetaS(c), NGamma(c), UnitGap(c))

\* One part in 2^(Prec - 3) of x, rounded up: eight units of roundoff.
Margin(x) == x \div 2^(Prec - 3) + 1

\* S is above the threshold by more than the margin: beta * S exceeds
\* N * gamma plus its margin.
WellAbove(c) ==
    /\ c.y[1][1] > 0
    /\ SignScaled(BetaS(c), NGamma(c) + Margin(NGamma(c)), UnitGap(c)) > 0

\* S is below the threshold by more than the margin.
WellBelow(c) ==
    \/ c.y[1][1] <= 0
    \/ SignScaled(BetaS(c) + Margin(BetaS(c)), NGamma(c), UnitGap(c)) < 0

\* The evaluation has I > 0, N > 0, beta > 0 and gamma > 0.
PositiveCase(c) ==
    /\ c.y[2][1] > 0 /\ c.N > 0 /\ c.beta[1] > 0 /\ c.gamma[1] > 0

====
